---------------------------- MODULE Spec2Model ----------------------------
(***************************************************************************)
(* A model of the LD2410 radar driver (src/LD2410/ld2410.py).              *)
(*                                                                         *)
(* One caller thread issues the driver's API calls; every call is split    *)
(* into the statements at which another thread can interleave.  start()    *)
(* spawns acquisition threads running poll_radar.  The serial transport is *)
(* the environment: every write and read picks its outcome (success, an    *)
(* exception, a timeout with zero bytes, a short read) nondeterministically.*)
(***************************************************************************)
EXTENDS Integers, Sequences, FiniteSets, TLC

(***************************************************************************)
(* Bounds of the model.                                                    *)
(***************************************************************************)
\* transport exceptions the environment raises during one API call
MaxRetry == 1
\* acquisition threads alive at the same time
MaxThreads == 2
\* read_fail_count up to which the environment raises in a header read (SyncSpec)
MaxFailSync == 2
\* bytes of a read that returns only the beginning of a frame
ShortLen == 3
\* readings counted per thread after a stop signal (pubs saturates there)
MaxPubs == 2

(***************************************************************************)
(* Protocol constants (ld2410_consts.py, imported at ld2410.py:1).         *)
(***************************************************************************)
GATE_MIN == 0
GATE_MAX == 8
SENS_MIN == 0
SENS_MAX == 100
TIMEOUT_MIN == 0
TIMEOUT_MAX == 65535

\* Python's None where a baud rate is expected (falsy, like None)
NoBaud == 0

CMD_CONFIG_ENABLE == [code |-> "CMD_CONFIG_ENABLE", params |-> <<>>]
CMD_CONFIG_DISABLE == [code |-> "CMD_CONFIG_DISABLE", params |-> <<>>]
CMD_PARAM_READ == [code |-> "CMD_PARAM_READ", params |-> <<>>]
CMD_ENG_MODE_ENABLE == [code |-> "CMD_ENG_MODE_ENABLE", params |-> <<>>]
CMD_ENG_MODE_DISABLE == [code |-> "CMD_ENG_MODE_DISABLE", params |-> <<>>]
CMD_FIRMWARE_READ == [code |-> "CMD_FIRMWARE_READ", params |-> <<>>]
CMD_FACTORY_RESET == [code |-> "CMD_FACTORY_RESET", params |-> <<>>]
CMD_RESTART == [code |-> "CMD_RESTART", params |-> <<>>]
CMD_BT_ENABLE == [code |-> "CMD_BT_ENABLE", params |-> <<>>]
CMD_BT_DISABLE == [code |-> "CMD_BT_DISABLE", params |-> <<>>]
CMD_BT_MAC_QUERY == [code |-> "CMD_BT_MAC_QUERY", params |-> <<>>]

\* the baud lookup table: selector -> rate
BAUD_LOOKUP == [s \in 1 .. 8 |->
                  <<9600, 19200, 38400, 57600, 115200, 230400, 256000, 460800>>[s]]
PARAM_ACCEPTABLE_BAUDS == DOMAIN BAUD_LOOKUP
PARAM_DEFAULT_BAUD == 7

\* the 4 header bytes of a data frame
REF_READ_HEADER == <<244, 243, 242, 241>>
\* bytes of a telemetry frame after its header: standard, engineering (+ 2 x 9)
REF_NORMAL_PACKET_LEN == 19
REF_ENG_MODE_PACKET_LEN == 37
\* offset of the byte that tells an engineering frame
REF_ENG_CHECK_IDX == 2
\* offset of the last standard field
REF_DETECT_DIST == 11
\* offsets of the first and last per-gate energies
REF_MOVING_GATE_ENERGY_0 == 13
REF_MOVING_GATE_ENERGY_8 == 21
REF_STATIC_GATE_ENERGY_0 == 22
REF_STATIC_GATE_ENERGY_8 == 30
\* length of the checksum/footer constant REF_PACKET_CRC
CrcLen == 6

(***************************************************************************)
(* Pure helpers of the driver.                                             *)
(***************************************************************************)
\* range(lower, upper): the integers lower <= i < upper
Range(lower, upper) == {i \in lower .. upper - 1 : TRUE}

validate_range_Inclusive(input, lower, upper) == input \in lower .. upper

\* validate_range: TRUE when accepted, FALSE when it raises
validate_range(input, lower, upper) == input \in Range(lower, upper)

Reverse(s) == [i \in 1 .. Len(s) |-> s[Len(s) + 1 - i]]

\* struct.pack('>I', num): 4 bytes, most significant first
PackBE32(num) == << (num \div 16777216) % 256, (num \div 65536) % 256,
                    (num \div 256) % 256, num % 256 >>

int_to_4b_NoReverse(num) == PackBE32(num)

\* int_to_4b: big-endian pack, then reverse
int_to_4b(num) == Reverse(PackBE32(num))

frame_wrapper(command) == [hdr |-> "CMD_HEADER", body |-> command, mfr |-> "CMD_MFR"]

Param(tag, val) == [tag |-> tag, val |-> val]

(***************************************************************************)
(* State.                                                                  *)
(***************************************************************************)
VARIABLES
  baudrate,        \* self.baudrate: a selector of BAUD_LOOKUP, or a rate
  eng_mode,        \* self.eng_mode
  ser,             \* self.ser: [open, baud]
  call,            \* the caller thread's current (or last) API call: [op, args]
  prog,            \* the statements of that call still to run; <<>>: the call is over
  ret_bytes,       \* send_command's local ret_bytes
  result,          \* how the last call ended: [status, value]
  io,              \* the transport events of the current call, oldest first
  retries,         \* transport exceptions raised during the current call
  stop_event,      \* self._stop_event: TRUE when set
  worker_thread,   \* self._worker_thread: <<>> for None, <<t>> for thread t
  lock,            \* self._lock: <<>> when free, <<owner>> when held
  last_detection,  \* self.last_detection: <<>> for None, <<reading>> otherwise
  read_fail_count, \* self.read_fail_count
  wpc,             \* wpc[t]: where acquisition thread t is
  buffer,          \* buffer[t]: get_data_frame's local Queue(max_size=4)
  read_len,        \* read_len[t]: get_data_frame's local read_len
  ret,             \* ret[t]: the frame get_data_frame read, as thread t holds it
  heard,           \* heard[t]: what the wire delivered to t's current header search
  ever_stopped,    \* stop() has signalled cancellation at least once
  pubs             \* pubs[t]: readings t published under the current stop signal

callvars == <<call, prog, ret_bytes, result, io, retries>>
drivervars == <<baudrate, eng_mode, ser>>
threadvars == <<stop_event, worker_thread, lock, last_detection, read_fail_count,
                wpc, buffer, read_len, ret, heard, ever_stopped, pubs>>
vars == <<callvars, drivervars, threadvars>>

Empty == <<>>
Ack(frame) == <<frame.body.code>>

\* results of a call; value is a byte sequence (<<>> when the call returns None)
InProgress == [status |-> "running", exc |-> "", value |-> <<>>]
Returned(v) == [status |-> "returned", exc |-> "", value |-> v]
Raised(e) == [status |-> "raised", exc |-> e, value |-> <<>>]

\* the caller thread is between two calls
NoCall == [op |-> "", args |-> <<>>]

\* transport events: a completed write, a completed read, a raised exception
W(frame) == [ev |-> "write", frame |-> frame, bytes |-> <<>>]
R(frame, bytes) == [ev |-> "read", frame |-> frame, bytes |-> bytes]
XW(frame) == [ev |-> "write_exc", frame |-> frame, bytes |-> <<>>]
XR(frame) == [ev |-> "read_exc", frame |-> frame, bytes |-> <<>>]

(***************************************************************************)
(* The bodies of the API methods, as the statements still to run.          *)
(***************************************************************************)
\* send_frame: write the wrapped command, read the response
send_frame(command, keep) ==
  << [k |-> "write", frame |-> frame_wrapper(command)],
     [k |-> "read", frame |-> frame_wrapper(command), keep |-> keep] >>

send_command_NoDisable(command) ==
  send_frame(CMD_CONFIG_ENABLE, FALSE) \o send_frame(command, TRUE)

send_command(command) ==
  send_frame(CMD_CONFIG_ENABLE, FALSE) \o send_frame(command, TRUE)
    \o send_frame(CMD_CONFIG_DISABLE, FALSE)

Stmt(k) == [k |-> k]
Raise(e) == [k |-> "raise", exc |-> e]

edit_detection_params(moving_max_gate, static_max_gate, timeout) ==
  IF /\ validate_range(moving_max_gate, GATE_MIN, GATE_MAX + 1)
     /\ validate_range(static_max_gate, GATE_MIN, GATE_MAX + 1)
     /\ validate_range(timeout, TIMEOUT_MIN, TIMEOUT_MAX + 1)
  THEN send_command([code |-> "CMD_PARAM_EDIT", params |->
         << Param("PARAM_MAX_MOVING_GATE", int_to_4b(moving_max_gate)),
            Param("PARAM_MAX_STATIC_GATE", int_to_4b(static_max_gate)),
            Param("PARAM_EMPTY_DURATION", int_to_4b(timeout)) >>])
       \o <<Stmt("return")>>
  ELSE <<Raise("Exception")>>

read_detection_params == send_command(CMD_PARAM_READ) \o <<Stmt("parse_index")>>

enable_engineering_mode ==
  <<[k |-> "set_eng", v |-> TRUE]>> \o send_command(CMD_ENG_MODE_ENABLE)
    \o <<Stmt("return")>>

disable_engineering_mode ==
  <<[k |-> "set_eng", v |-> FALSE]>> \o send_command(CMD_ENG_MODE_DISABLE)
    \o <<Stmt("return")>>

edit_gate_sensitivity_NoSpecial(gate, moving_sens, static_sens) ==
  IF /\ validate_range(gate, GATE_MIN, GATE_MAX + 1)
     /\ validate_range(moving_sens, SENS_MIN, SENS_MAX + 1)
     /\ validate_range(static_sens, SENS_MIN, SENS_MAX + 1)
  THEN send_command([code |-> "CMD_GATE_SENS_EDIT", params |->
         << Param("PARAM_GATE_SELECT", int_to_4b(gate)),
            Param("PARAM_MOVING_GATE_WORD", int_to_4b(moving_sens)),
            Param("PARAM_STATIC_GATE_WORD", int_to_4b(static_sens)) >>])
       \o <<Stmt("return")>>
  ELSE <<Raise("Exception")>>

edit_gate_sensitivity(gate, moving_sens, static_sens) ==
  IF /\ validate_range(gate, GATE_MIN, GATE_MAX + 1)
     /\ validate_range(moving_sens, SENS_MIN, SENS_MAX + 1)
     /\ IF gate = 1 \/ gate = 2
        THEN validate_range(static_sens, 0, 1)
        ELSE validate_range(static_sens, SENS_MIN, SENS_MAX + 1)
  THEN send_command([code |-> "CMD_GATE_SENS_EDIT", params |->
         << Param("PARAM_GATE_SELECT", int_to_4b(gate)),
            Param("PARAM_MOVING_GATE_WORD", int_to_4b(moving_sens)),
            Param("PARAM_STATIC_GATE_WORD", int_to_4b(static_sens)) >>])
       \o <<Stmt("return")>>
  ELSE <<Raise("Exception")>>

read_firmware_version == send_command(CMD_FIRMWARE_READ) \o <<Stmt("parse_index")>>

\* restart_module: new_baud = NoBaud stands for None
restart_module(new_baud) ==
  (IF new_baud # NoBaud THEN <<[k |-> "set_baudrate", v |-> new_baud]>> ELSE <<>>)
    \o send_command(CMD_RESTART)
    \o <<Stmt("close"), Stmt("reopen"), Stmt("restarted")>>

set_baud_rate_NoCheck(baud_rate, reconnect) ==
  send_command([code |-> "CMD_BAUD_RATE_SET", params |-> <<Param("", <<baud_rate>>)>>])
    \o (IF reconnect /\ baud_rate \in DOMAIN BAUD_LOOKUP
        THEN restart_module(BAUD_LOOKUP[baud_rate]) ELSE <<Stmt("return")>>)

\* set_baud_rate: line 184 looks the selector up before the check of line 185
set_baud_rate(baud_rate, reconnect) ==
  IF baud_rate \notin DOMAIN BAUD_LOOKUP THEN <<Raise("KeyError")>>
  ELSE IF baud_rate \notin PARAM_ACCEPTABLE_BAUDS THEN <<Raise("Exception")>>
  ELSE send_command([code |-> "CMD_BAUD_RATE_SET", params |-> <<Param("", <<baud_rate>>)>>])
         \o (IF reconnect THEN restart_module(BAUD_LOOKUP[baud_rate])
             ELSE <<Stmt("return")>>)

factory_reset(reconnect) ==
  send_command(CMD_FACTORY_RESET)
    \o (IF reconnect THEN restart_module(BAUD_LOOKUP[PARAM_DEFAULT_BAUD])
        ELSE <<Stmt("return")>>)

bt_enable == send_command(CMD_BT_ENABLE) \o <<Stmt("return")>>
bt_disable == send_command(CMD_BT_DISABLE) \o <<Stmt("return")>>
bt_query_mac == send_command(CMD_BT_MAC_QUERY) \o <<Stmt("parse_slice")>>

(***************************************************************************)
(* Inputs of the API calls: the boundaries of every range and one value    *)
(* beyond each.                                                            *)
(***************************************************************************)
GateArgs == {GATE_MIN - 1, GATE_MIN, 1, 2, GATE_MAX, GATE_MAX + 1}
MaxGateArgs == {GATE_MIN - 1, GATE_MIN, GATE_MAX, GATE_MAX + 1}
SensArgs == {SENS_MIN - 1, SENS_MIN, 1, SENS_MAX, SENS_MAX + 1}
TimeoutArgs == {TIMEOUT_MIN - 1, TIMEOUT_MIN, TIMEOUT_MAX, TIMEOUT_MAX + 1}
\* two selectors of the table, a selector beyond it, and a rate used as a selector
BaudArgs == {1, PARAM_DEFAULT_BAUD, 9, 9600}
NewBaudArgs == {NoBaud, PARAM_DEFAULT_BAUD, 9600}
CommandArgs == {CMD_PARAM_READ, CMD_RESTART}

Threads == 1 .. MaxThreads

NoFrame == [len |-> 0, sig |-> FALSE, crc |-> FALSE]
\* last: the last bytes (at most 4) the wire delivered; clean: every read so far
\* returned one byte; more: the wire delivered more than 4 bytes
NothingHeard == [last |-> <<>>, clean |-> TRUE, more |-> FALSE]

Init ==
  /\ baudrate = PARAM_DEFAULT_BAUD
  /\ eng_mode = FALSE
  /\ ser = [open |-> TRUE, baud |-> BAUD_LOOKUP[PARAM_DEFAULT_BAUD]]
  /\ call = NoCall
  /\ prog = <<>>
  /\ ret_bytes = <<>>
  /\ result = Returned(<<>>)
  /\ io = <<>>
  /\ retries = 0
  /\ stop_event = FALSE
  /\ worker_thread = <<>>
  /\ lock = <<>>
  /\ last_detection = <<>>
  /\ read_fail_count = 0
  /\ wpc = [t \in Threads |-> "unborn"]
  /\ buffer = [t \in Threads |-> <<>>]
  /\ read_len = [t \in Threads |-> 0]
  /\ ret = [t \in Threads |-> NoFrame]
  /\ heard = [t \in Threads |-> NothingHeard]
  /\ ever_stopped = FALSE
  /\ pubs = [t \in Threads |-> 0]

(***************************************************************************)
(* The caller thread: the start of a call.  A body that begins with a      *)
(* raise ends the call at once: validation touches no shared state.        *)
(***************************************************************************)
Call(op, args, body) ==
  /\ call = NoCall
  /\ call' = [op |-> op, args |-> args]
  /\ io' = <<>>
  /\ retries' = 0
  /\ ret_bytes' = <<>>
  /\ IF body[1].k = "raise"
     THEN prog' = <<>> /\ result' = Raised(body[1].exc)
     ELSE IF body = <<Stmt("return")>>
     THEN prog' = <<>> /\ result' = Returned(<<>>)
     ELSE prog' = body /\ result' = InProgress

Direct_send_command ==
  /\ \E c \in CommandArgs :
       Call("send_command", <<c>>, send_command(c) \o <<Stmt("return_ret")>>)
  /\ UNCHANGED <<drivervars, threadvars>>

Call_edit_detection_params ==
  /\ \E m \in MaxGateArgs, s \in MaxGateArgs, t \in TimeoutArgs :
       Call("edit_detection_params", <<m, s, t>>, edit_detection_params(m, s, t))
  /\ UNCHANGED <<drivervars, threadvars>>

Call_edit_gate_sensitivity ==
  /\ \E g \in GateArgs, m \in SensArgs, s \in SensArgs :
       Call("edit_gate_sensitivity", <<g, m, s>>, edit_gate_sensitivity(g, m, s))
  /\ UNCHANGED <<drivervars, threadvars>>

Call_read_detection_params ==
  /\ Call("read_detection_params", <<>>, read_detection_params)
  /\ UNCHANGED <<drivervars, threadvars>>

Call_read_firmware_version ==
  /\ Call("read_firmware_version", <<>>, read_firmware_version)
  /\ UNCHANGED <<drivervars, threadvars>>

Call_enable_engineering_mode ==
  /\ Call("enable_engineering_mode", <<>>, enable_engineering_mode)
  /\ UNCHANGED <<drivervars, threadvars>>

Call_disable_engineering_mode ==
  /\ Call("disable_engineering_mode", <<>>, disable_engineering_mode)
  /\ UNCHANGED <<drivervars, threadvars>>

Call_set_baud_rate ==
  /\ \E b \in BaudArgs, reconnect \in BOOLEAN :
       Call("set_baud_rate", <<b, IF reconnect THEN 1 ELSE 0>>, set_baud_rate(b, reconnect))
  /\ UNCHANGED <<drivervars, threadvars>>

Call_factory_reset ==
  /\ \E reconnect \in BOOLEAN :
       Call("factory_reset", <<IF reconnect THEN 1 ELSE 0>>, factory_reset(reconnect))
  /\ UNCHANGED <<drivervars, threadvars>>

Call_restart_module ==
  /\ \E b \in NewBaudArgs : Call("restart_module", <<b>>, restart_module(b))
  /\ UNCHANGED <<drivervars, threadvars>>

Call_bt_enable ==
  /\ Call("bt_enable", <<>>, bt_enable)
  /\ UNCHANGED <<drivervars, threadvars>>

Call_bt_disable ==
  /\ Call("bt_disable", <<>>, bt_disable)
  /\ UNCHANGED <<drivervars, threadvars>>

Call_bt_query_mac ==
  /\ Call("bt_query_mac", <<>>, bt_query_mac)
  /\ UNCHANGED <<drivervars, threadvars>>

(***************************************************************************)
(* The caller thread: one statement of the call in progress.               *)
(***************************************************************************)
At(k) == prog # <<>> /\ Head(prog).k = k

\* send_frame, self.ser.write: the frame goes out
SendFrameWrite ==
  /\ At("write")
  /\ ser.open
  /\ io' = Append(io, W(Head(prog).frame))
  /\ prog' = Tail(prog)
  /\ UNCHANGED <<call, ret_bytes, result, retries, drivervars, threadvars>>

\* send_frame, self.ser.write raises: the except clause logs, the loop writes again
SendFrameWriteRaises ==
  /\ At("write")
  /\ retries < MaxRetry
  /\ retries' = retries + 1
  /\ io' = Append(io, XW(Head(prog).frame))
  /\ UNCHANGED <<call, prog, ret_bytes, result, drivervars, threadvars>>

\* send_frame, self.ser.read: the acknowledgement or, on a timeout, no bytes
SendFrameRead ==
  /\ At("read")
  /\ ser.open
  /\ \E b \in {Ack(Head(prog).frame), Empty} :
       /\ io' = Append(io, R(Head(prog).frame, b))
       /\ ret_bytes' = IF Head(prog).keep THEN b ELSE ret_bytes
  /\ prog' = Tail(prog)
  /\ UNCHANGED <<call, result, retries, drivervars, threadvars>>

SendFrameReadRaises_Propagates ==
  /\ At("read")
  /\ retries < MaxRetry
  /\ retries' = retries + 1
  /\ io' = Append(io, XR(Head(prog).frame))
  /\ prog' = <<>>
  /\ result' = Raised("SerialException")
  /\ UNCHANGED <<call, ret_bytes, drivervars, threadvars>>

\* send_frame, self.ser.read raises: back to the top of the loop, which writes again
SendFrameReadRaises ==
  /\ At("read")
  /\ retries < MaxRetry
  /\ retries' = retries + 1
  /\ io' = Append(io, XR(Head(prog).frame))
  /\ prog' = <<[k |-> "write", frame |-> Head(prog).frame]>> \o prog
  /\ UNCHANGED <<call, ret_bytes, result, drivervars, threadvars>>

\* the end of a method that returns None
ReturnNone ==
  /\ At("return")
  /\ prog' = <<>>
  /\ result' = Returned(<<>>)
  /\ UNCHANGED <<call, ret_bytes, io, retries, drivervars, threadvars>>

\* send_command's return ret_bytes
ReturnRetBytes ==
  /\ At("return_ret")
  /\ prog' = <<>>
  /\ result' = Returned(ret_bytes)
  /\ UNCHANGED <<call, ret_bytes, io, retries, drivervars, threadvars>>

\* read_detection_params, read_firmware_version: ret[...] of an empty response raises
ParseIndexed ==
  /\ At("parse_index")
  /\ prog' = <<>>
  /\ result' = IF ret_bytes = Empty THEN Raised("IndexError") ELSE Returned(ret_bytes)
  /\ UNCHANGED <<call, ret_bytes, io, retries, drivervars, threadvars>>

\* bt_query_mac: a slice of the response, empty when the response is
ParseSliced ==
  /\ At("parse_slice")
  /\ prog' = <<>>
  /\ result' = Returned(ret_bytes)
  /\ UNCHANGED <<call, ret_bytes, io, retries, drivervars, threadvars>>

\* enable_engineering_mode / disable_engineering_mode: self.eng_mode = ...
SetEngMode ==
  /\ At("set_eng")
  /\ eng_mode' = Head(prog).v
  /\ prog' = Tail(prog)
  /\ UNCHANGED <<call, ret_bytes, result, io, retries, baudrate, ser, threadvars>>

\* restart_module: self.baudrate = new_baud
SetBaudrate ==
  /\ At("set_baudrate")
  /\ baudrate' = Head(prog).v
  /\ prog' = Tail(prog)
  /\ UNCHANGED <<call, ret_bytes, result, io, retries, eng_mode, ser, threadvars>>

\* restart_module: self.ser.close()
SerClose ==
  /\ At("close")
  /\ ser' = [ser EXCEPT !.open = FALSE]
  /\ prog' = Tail(prog)
  /\ UNCHANGED <<call, ret_bytes, result, io, retries, baudrate, eng_mode, threadvars>>

\* restart_module: serial.Serial(self.port, BAUD_LOOKUP[self.baudrate], ...);
\* the lookup raises KeyError when self.baudrate is no selector of the table
SerReopen ==
  /\ At("reopen")
  /\ IF baudrate \in DOMAIN BAUD_LOOKUP
     THEN /\ ser' = [open |-> TRUE, baud |-> BAUD_LOOKUP[baudrate]]
          /\ prog' = Tail(prog)
          /\ UNCHANGED result
     ELSE /\ prog' = <<>>
          /\ result' = Raised("KeyError")
          /\ UNCHANGED ser
  /\ UNCHANGED <<call, ret_bytes, io, retries, baudrate, eng_mode, threadvars>>

\* restart_module: self.eng_mode = False; time.sleep(1)
Restarted ==
  /\ At("restarted")
  /\ eng_mode' = FALSE
  /\ prog' = <<>>
  /\ result' = Returned(<<>>)
  /\ UNCHANGED <<call, ret_bytes, io, retries, baudrate, ser, threadvars>>

\* the caller has the outcome of the call and goes on to its next call
CallerContinues ==
  /\ call # NoCall
  /\ prog = <<>>
  /\ call' = NoCall
  /\ result' = Returned(<<>>)
  /\ io' = <<>>
  /\ retries' = 0
  /\ ret_bytes' = <<>>
  /\ UNCHANGED <<prog, drivervars, threadvars>>

CallerStep ==
  \/ SendFrameWrite
  \/ SendFrameWriteRaises
  \/ SendFrameRead
  \/ SendFrameReadRaises
  \/ ReturnNone
  \/ ReturnRetBytes
  \/ ParseIndexed
  \/ ParseSliced
  \/ SetEngMode
  \/ SetBaudrate
  \/ SerClose
  \/ SerReopen
  \/ Restarted
  \/ CallerContinues

(***************************************************************************)
(* The acquisition loop: start, stop, get_data on the caller thread.       *)
(***************************************************************************)
start == <<Stmt("spawn"), Stmt("clear_stop"), Stmt("settle")>>

stop_AlwaysSignals == <<Stmt("set_stop"), Stmt("join")>>

\* stop: the else branch only logs
stop == IF ~stop_event THEN <<Stmt("set_stop"), Stmt("join")>> ELSE <<Stmt("return")>>

get_data == <<Stmt("get_data")>>

get_data_result_RaisesOnEmpty(slot) ==
  IF slot = <<>> THEN Raised("Exception") ELSE Returned(slot)

\* get_data: return self.last_detection, None included
get_data_result(slot) == Returned(slot)

Alive(t) == wpc[t] \notin {"unborn", "exited", "crashed"}

Call_start ==
  /\ \E t \in Threads : ~Alive(t)
  /\ Call("start", <<>>, start)
  /\ UNCHANGED <<drivervars, threadvars>>

\* call.args records the branch stop() takes
Call_stop ==
  /\ Call("stop", <<IF stop_event THEN "not running" ELSE "running">>, stop)
  /\ UNCHANGED <<drivervars, threadvars>>

Call_get_data ==
  /\ Call("get_data", <<>>, get_data)
  /\ UNCHANGED <<drivervars, threadvars>>

\* start: threading.Thread(target=self.poll_radar), .start()
SpawnWorker ==
  /\ At("spawn")
  /\ LET t == CHOOSE u \in Threads : ~Alive(u) /\ \A v \in Threads : ~Alive(v) => u <= v
     IN /\ worker_thread' = <<t>>
        /\ wpc' = [wpc EXCEPT ![t] = "poll"]
  /\ prog' = Tail(prog)
  /\ UNCHANGED <<call, ret_bytes, result, io, retries, drivervars, stop_event, lock,
                 last_detection, read_fail_count, buffer, read_len, ret, heard,
                 ever_stopped, pubs>>

\* start: self._stop_event.clear()
ClearStop ==
  /\ At("clear_stop")
  /\ stop_event' = FALSE
  /\ pubs' = [t \in Threads |-> 0]
  /\ prog' = Tail(prog)
  /\ UNCHANGED <<call, ret_bytes, result, io, retries, drivervars, worker_thread, lock,
                 last_detection, read_fail_count, wpc, buffer, read_len, ret, heard,
                 ever_stopped>>

\* start: time.sleep(1), then start returns
Settle ==
  /\ At("settle")
  /\ prog' = <<>>
  /\ result' = Returned(<<>>)
  /\ UNCHANGED <<call, ret_bytes, io, retries, drivervars, threadvars>>

\* stop: self._stop_event.set()
SetStop ==
  /\ At("set_stop")
  /\ stop_event' = TRUE
  /\ ever_stopped' = TRUE
  /\ pubs' = [t \in Threads |-> 0]
  /\ prog' = Tail(prog)
  /\ UNCHANGED <<call, ret_bytes, result, io, retries, drivervars, worker_thread, lock,
                 last_detection, read_fail_count, wpc, buffer, read_len, ret, heard>>

\* stop: self._worker_thread.join() returns once the thread has ended
Join ==
  /\ At("join")
  /\ worker_thread # <<>>
  /\ ~Alive(worker_thread[1])
  /\ prog' = <<>>
  /\ result' = Returned(<<>>)
  /\ UNCHANGED <<call, ret_bytes, io, retries, drivervars, threadvars>>

\* stop: self._worker_thread is None, None.join raises AttributeError
JoinNone ==
  /\ At("join")
  /\ worker_thread = <<>>
  /\ prog' = <<>>
  /\ result' = Raised("AttributeError")
  /\ UNCHANGED <<call, ret_bytes, io, retries, drivervars, threadvars>>

\* get_data: with self._lock: return self.last_detection
GetData ==
  /\ At("get_data")
  /\ lock = <<>>
  /\ prog' = <<>>
  /\ result' = get_data_result(last_detection)
  /\ UNCHANGED <<call, ret_bytes, io, retries, drivervars, threadvars>>

(***************************************************************************)
(* The acquisition thread: poll_radar, get_radar_data, get_data_frame.     *)
(***************************************************************************)
Queue_add_Unbounded(queue, element) == Append(queue, element)

\* Queue.add on deque(maxlen=4): a full deque drops its oldest element
Queue_add(queue, element) ==
  IF Len(queue) = Len(REF_READ_HEADER) THEN Append(Tail(queue), element)
  ELSE Append(queue, element)

\* Queue.byte_str: the elements joined
RECURSIVE Queue_byte_str(_)
Queue_byte_str(queue) ==
  IF queue = <<>> THEN <<>> ELSE Head(queue) \o Queue_byte_str(Tail(queue))

\* the last bytes (at most 4) the wire really delivered, after one more
LastBytes(last, b) ==
  IF Len(last) = Len(REF_READ_HEADER) THEN Append(Tail(last), b) ELSE Append(last, b)

HeardByte(h, b) ==
  [last |-> LastBytes(h.last, b), clean |-> h.clean,
   more |-> h.more \/ Len(h.last) = Len(REF_READ_HEADER)]
HeardNothing(h) == [h EXCEPT !.clean = FALSE]

\* the frames a read of read_len bytes can return: no byte at all, a few bytes,
\* a whole standard frame, a whole engineering frame
FrameLens(n) == {l \in {0, ShortLen, REF_NORMAL_PACKET_LEN, REF_ENG_MODE_PACKET_LEN} : l <= n}
Frames(n) ==
  {f \in [len : FrameLens(n), sig : BOOLEAN, crc : BOOLEAN] :
     /\ f.sig => f.len > REF_ENG_CHECK_IDX
     /\ f.crc => f.len >= CrcLen}

\* ret[a : b + 1] of a frame of len bytes has this many bytes
SliceLen(len, a, b) ==
  IF len <= a THEN 0 ELSE IF len > b THEN b + 1 - a ELSE len - a

\* get_radar_data's result; move_energies and static_energies are <<>> for None
\* and <<n>> for a list of n energies
Reading(frame, eng) ==
  [move_energies |->
     IF eng THEN <<SliceLen(frame.len, REF_MOVING_GATE_ENERGY_0, REF_MOVING_GATE_ENERGY_8)>>
     ELSE <<>>,
   static_energies |->
     IF eng THEN <<SliceLen(frame.len, REF_STATIC_GATE_ENERGY_0, REF_STATIC_GATE_ENERGY_8)>>
     ELSE <<>>]

PollCheck_IgnoresStop(t) ==
  /\ wpc[t] = "poll"
  /\ wpc' = [wpc EXCEPT ![t] = "acquire"]
  /\ UNCHANGED <<callvars, drivervars, stop_event, worker_thread, lock, last_detection,
                 read_fail_count, buffer, read_len, ret, heard, ever_stopped, pubs>>

\* poll_radar: while not self._stop_event.is_set()
PollCheck(t) ==
  /\ wpc[t] = "poll"
  /\ wpc' = [wpc EXCEPT ![t] = IF stop_event THEN "exited" ELSE "acquire"]
  /\ UNCHANGED <<callvars, drivervars, stop_event, worker_thread, lock, last_detection,
                 read_fail_count, buffer, read_len, ret, heard, ever_stopped, pubs>>

\* poll_radar: with self._lock; get_radar_data calls get_data_frame
LockAcquire(t) ==
  /\ wpc[t] = "acquire"
  /\ lock = <<>>
  /\ lock' = <<t>>
  /\ wpc' = [wpc EXCEPT ![t] = "search"]
  /\ buffer' = [buffer EXCEPT ![t] = <<>>]
  /\ heard' = [heard EXCEPT ![t] = NothingHeard]
  /\ UNCHANGED <<callvars, drivervars, stop_event, worker_thread, last_detection,
                 read_fail_count, read_len, ret, ever_stopped, pubs>>

Searching(t) == wpc[t] = "search" /\ Queue_byte_str(buffer[t]) # REF_READ_HEADER

\* get_data_frame: b = self.ser.read() returns one byte
HeaderRead(t, bytes) ==
  /\ Searching(t)
  /\ ser.open
  /\ \E b \in bytes :
       /\ buffer' = [buffer EXCEPT ![t] = Queue_add(@, <<b>>)]
       /\ heard' = [heard EXCEPT ![t] = HeardByte(@, b)]
  /\ UNCHANGED <<callvars, drivervars, stop_event, worker_thread, lock, last_detection,
                 read_fail_count, wpc, read_len, ret, ever_stopped, pubs>>

\* get_data_frame: self.ser.read() times out and returns b""
HeaderReadTimeout(t) ==
  /\ Searching(t)
  /\ ser.open
  /\ buffer' = [buffer EXCEPT ![t] = Queue_add(@, <<>>)]
  /\ heard' = [heard EXCEPT ![t] = HeardNothing(@)]
  /\ UNCHANGED <<callvars, drivervars, stop_event, worker_thread, lock, last_detection,
                 read_fail_count, wpc, read_len, ret, ever_stopped, pubs>>

\* get_data_frame: self.ser.read() raises; lines 241 and 243 both add 1
HeaderReadRaises(t, cap) ==
  /\ Searching(t)
  /\ read_fail_count < cap
  /\ read_fail_count' = read_fail_count + 1 + 1
  /\ buffer' = [buffer EXCEPT ![t] = Queue_add(@, <<>>)]
  /\ heard' = [heard EXCEPT ![t] = HeardNothing(@)]
  /\ UNCHANGED <<callvars, drivervars, stop_event, worker_thread, lock, last_detection,
                 wpc, read_len, ret, ever_stopped, pubs>>

\* get_data_frame: the loop ends, read_len is chosen by self.eng_mode
HeaderFound(t) ==
  /\ wpc[t] = "search"
  /\ Queue_byte_str(buffer[t]) = REF_READ_HEADER
  /\ wpc' = [wpc EXCEPT ![t] = "frame"]
  /\ read_len' = [read_len EXCEPT ![t] =
       IF eng_mode THEN REF_ENG_MODE_PACKET_LEN ELSE REF_NORMAL_PACKET_LEN]
  /\ buffer' = [buffer EXCEPT ![t] = <<>>]
  /\ heard' = [heard EXCEPT ![t] = NothingHeard]
  /\ UNCHANGED <<callvars, drivervars, stop_event, worker_thread, lock, last_detection,
                 read_fail_count, ret, ever_stopped, pubs>>

\* get_data_frame: ret_candidate = self.ser.read(read_len)
FrameRead(t) ==
  /\ wpc[t] = "frame"
  /\ ser.open
  /\ \E f \in Frames(read_len[t]) : ret' = [ret EXCEPT ![t] = f]
  /\ read_len' = [read_len EXCEPT ![t] = 0]
  /\ wpc' = [wpc EXCEPT ![t] = "check"]
  /\ UNCHANGED <<callvars, drivervars, stop_event, worker_thread, lock, last_detection,
                 read_fail_count, buffer, heard, ever_stopped, pubs>>

\* get_data_frame: self.ser.read(read_len) raises, None is returned and
\* get_radar_data's while not ret calls get_data_frame again
FrameReadRaises(t) ==
  /\ wpc[t] = "frame"
  /\ wpc' = [wpc EXCEPT ![t] = "search"]
  /\ read_len' = [read_len EXCEPT ![t] = 0]
  /\ UNCHANGED <<callvars, drivervars, stop_event, worker_thread, lock, last_detection,
                 read_fail_count, buffer, ret, heard, ever_stopped, pubs>>

get_data_frame_result_RaisesOnChecksum(frame, eng) ==
  IF frame.len <= REF_ENG_CHECK_IDX THEN "IndexError"
  ELSE IF ~(frame.sig /\ eng = FALSE) /\ ~frame.crc THEN "Exception"
  ELSE "return"

\* get_data_frame, lines 264-275: how the checks on ret_candidate end; the
\* checksum branch only logs (its raise is commented out at line 270)
get_data_frame_result(frame, eng) ==
  IF frame.len <= REF_ENG_CHECK_IDX THEN "IndexError" ELSE "return"

\* get_data_frame, lines 265-275: ret_candidate[REF_ENG_CHECK_IDX] raises IndexError
\* on a frame that short, the exception leaves poll_radar (the with releases the
\* lock); otherwise the mode heuristic, the advisory checksum, the counter reset
FrameCheck(t) ==
  /\ wpc[t] = "check"
  /\ IF get_data_frame_result(ret[t], eng_mode) # "return"
     THEN /\ wpc' = [wpc EXCEPT ![t] = "crashed"]
          /\ lock' = <<>>
          /\ ret' = [ret EXCEPT ![t] = NoFrame]
          /\ UNCHANGED <<eng_mode, read_fail_count>>
     ELSE /\ eng_mode' = IF ret[t].sig /\ eng_mode = FALSE THEN TRUE ELSE eng_mode
          /\ read_fail_count' = 0
          /\ wpc' = [wpc EXCEPT ![t] = "decode"]
          /\ UNCHANGED <<lock, ret>>
  /\ UNCHANGED <<callvars, baudrate, ser, stop_event, worker_thread, last_detection,
                 buffer, read_len, heard, ever_stopped, pubs>>

\* get_radar_data, lines 286-309, and poll_radar's assignment and sleep: a frame
\* too short for a standard field raises (IndexError, ValueError) and ends the thread
DecodeAndPublish(t) ==
  /\ wpc[t] = "decode"
  /\ IF ret[t].len <= REF_DETECT_DIST
     THEN /\ wpc' = [wpc EXCEPT ![t] = "crashed"]
          /\ UNCHANGED <<last_detection, pubs>>
     ELSE /\ wpc' = [wpc EXCEPT ![t] = "poll"]
          /\ last_detection' = <<Reading(ret[t], eng_mode)>>
          /\ pubs' = [pubs EXCEPT ![t] =
               IF stop_event /\ @ < MaxPubs THEN @ + 1 ELSE @]
  /\ lock' = <<>>
  /\ ret' = [ret EXCEPT ![t] = NoFrame]
  /\ UNCHANGED <<callvars, drivervars, stop_event, worker_thread, read_fail_count,
                 buffer, read_len, heard, ever_stopped>>

(***************************************************************************)
(* The wire during a header search.  Under Spec it is in frame sync: every *)
(* read delivers the next byte of the header.  Under SyncSpec a read       *)
(* delivers any byte (noise, or a byte of the header at any place), times  *)
(* out, or raises.                                                         *)
(***************************************************************************)
IsSuffixPrefix(s, k) ==
  /\ k <= Len(s)
  /\ \A i \in 1 .. k : s[Len(s) - k + i] = REF_READ_HEADER[i]

\* how many bytes of the header the wire has delivered so far
Matched(s) ==
  CHOOSE k \in 0 .. Len(REF_READ_HEADER) - 1 :
    /\ IsSuffixPrefix(s, k)
    /\ \A j \in 0 .. Len(REF_READ_HEADER) - 1 : IsSuffixPrefix(s, j) => j <= k

SyncedBytes(t) == {REF_READ_HEADER[Matched(heard[t].last) + 1]}
\* the header's bytes and 0, a byte that is none of them
AnyBytes == {REF_READ_HEADER[i] : i \in 1 .. Len(REF_READ_HEADER)} \cup {0}

(***************************************************************************)
(* Spec: the acquisition loop and its callers, on a wire in frame sync.    *)
(***************************************************************************)
Next ==
  \/ Call_start
  \/ Call_stop
  \/ Call_get_data
  \/ SpawnWorker
  \/ ClearStop
  \/ Settle
  \/ SetStop
  \/ Join
  \/ JoinNone
  \/ GetData
  \/ CallerContinues
  \/ \E t \in Threads : PollCheck(t)
  \/ \E t \in Threads : LockAcquire(t)
  \/ \E t \in Threads : HeaderRead(t, SyncedBytes(t))
  \/ \E t \in Threads : HeaderFound(t)
  \/ \E t \in Threads : FrameRead(t)
  \/ \E t \in Threads : FrameReadRaises(t)
  \/ \E t \in Threads : FrameCheck(t)
  \/ \E t \in Threads : DecodeAndPublish(t)

Spec == Init /\ [][Next]_vars

(***************************************************************************)
(* StopSpec: start() and stop() on the caller thread and the acquisition   *)
(* threads, on a wire in frame sync; FairSpec adds that every thread keeps *)
(* running.                                                                *)
(***************************************************************************)
StopNext ==
  \/ Call_start
  \/ Call_stop
  \/ SpawnWorker
  \/ ClearStop
  \/ Settle
  \/ SetStop
  \/ Join
  \/ JoinNone
  \/ CallerContinues
  \/ \E t \in Threads : PollCheck(t)
  \/ \E t \in Threads : LockAcquire(t)
  \/ \E t \in Threads : HeaderRead(t, SyncedBytes(t))
  \/ \E t \in Threads : HeaderFound(t)
  \/ \E t \in Threads : FrameRead(t)
  \/ \E t \in Threads : FrameReadRaises(t)
  \/ \E t \in Threads : FrameCheck(t)
  \/ \E t \in Threads : DecodeAndPublish(t)

StopSpec == Init /\ [][StopNext]_vars

\* a step of acquisition thread t that is up to the thread alone
WorkerStep(t) ==
  \/ PollCheck(t)
  \/ LockAcquire(t)
  \/ HeaderRead(t, SyncedBytes(t))
  \/ HeaderFound(t)
  \/ FrameCheck(t)
  \/ DecodeAndPublish(t)

\* every thread keeps running: an acquisition thread that can take a step
\* eventually takes one, a join that can return eventually returns; the transport
\* eventually completes a frame read (it does not raise in every one forever)
FairSpec ==
  /\ StopSpec
  /\ WF_vars(Join)
  /\ \A t \in Threads : WF_vars(WorkerStep(t)) /\ SF_vars(FrameRead(t))

(***************************************************************************)
(* SyncSpec: one start() and the acquisition thread on a noisy wire.       *)
(***************************************************************************)
SyncNext ==
  \/ Call_start
  \/ SpawnWorker
  \/ ClearStop
  \/ Settle
  \/ \E t \in Threads : PollCheck(t)
  \/ \E t \in Threads : LockAcquire(t)
  \/ \E t \in Threads : HeaderRead(t, AnyBytes)
  \/ \E t \in Threads : HeaderReadTimeout(t)
  \/ \E t \in Threads : HeaderReadRaises(t, MaxFailSync)
  \/ \E t \in Threads : HeaderFound(t)
  \/ \E t \in Threads : FrameRead(t)
  \/ \E t \in Threads : FrameReadRaises(t)
  \/ \E t \in Threads : FrameCheck(t)
  \/ \E t \in Threads : DecodeAndPublish(t)

SyncSpec == Init /\ [][SyncNext]_vars

(***************************************************************************)
(* CmdSpec: the command layer, every configuration call, no acquisition    *)
(* thread running.                                                         *)
(***************************************************************************)
CmdNext ==
  \/ Direct_send_command
  \/ Call_edit_detection_params
  \/ Call_edit_gate_sensitivity
  \/ Call_read_detection_params
  \/ Call_read_firmware_version
  \/ Call_enable_engineering_mode
  \/ Call_disable_engineering_mode
  \/ Call_set_baud_rate
  \/ Call_factory_reset
  \/ Call_restart_module
  \/ Call_bt_enable
  \/ Call_bt_disable
  \/ Call_bt_query_mac
  \/ CallerStep

CmdSpec == Init /\ [][CmdNext]_vars

\* the caller thread keeps running: a write or a read the transport can complete
\* is eventually completed
CmdFairSpec == CmdSpec /\ WF_vars(SendFrameWrite) /\ WF_vars(SendFrameRead)

(***************************************************************************)
(* ModeSpec: the engineering-mode calls and restart_module on the caller   *)
(* thread while the acquisition loop runs (src/example.py:32-52), on a     *)
(* wire in frame sync and a transport that raises nothing during commands. *)
(***************************************************************************)
ModeNext ==
  \/ Call_start
  \/ SpawnWorker
  \/ ClearStop
  \/ Settle
  \/ Call_enable_engineering_mode
  \/ Call_disable_engineering_mode
  \/ Call_restart_module
  \/ SetEngMode
  \/ SendFrameWrite
  \/ SendFrameRead
  \/ ReturnNone
  \/ SetBaudrate
  \/ SerClose
  \/ SerReopen
  \/ Restarted
  \/ CallerContinues
  \/ \E t \in Threads : PollCheck(t)
  \/ \E t \in Threads : LockAcquire(t)
  \/ \E t \in Threads : HeaderRead(t, SyncedBytes(t))
  \/ \E t \in Threads : HeaderFound(t)
  \/ \E t \in Threads : FrameRead(t)
  \/ \E t \in Threads : FrameReadRaises(t)
  \/ \E t \in Threads : FrameCheck(t)
  \/ \E t \in Threads : DecodeAndPublish(t)

ModeSpec == Init /\ [][ModeNext]_vars

(***************************************************************************)
(* What the transport saw during the current call.                         *)
(***************************************************************************)
IsWrite(e) == e.ev = "write"
WrittenFrames == [i \in 1 .. Len(SelectSeq(io, IsWrite)) |-> SelectSeq(io, IsWrite)[i].frame]

\* a sequence without its immediate repetitions
RECURSIVE Squash(_)
Squash(s) ==
  IF Len(s) <= 1 THEN s
  ELSE IF s[1] = s[2] THEN Squash(Tail(s))
  ELSE <<s[1]>> \o Squash(Tail(s))

IsPrefix(s, t) == Len(s) <= Len(t) /\ \A i \in 1 .. Len(s) : s[i] = t[i]

Count(ev, frame) == Cardinality({i \in 1 .. Len(io) : io[i].ev = ev /\ io[i].frame = frame})

Bracket(command) ==
  << frame_wrapper(CMD_CONFIG_ENABLE), frame_wrapper(command),
     frame_wrapper(CMD_CONFIG_DISABLE) >>

\* the bytes of the last completed read that followed a write of frame
LastReadOf(frame) ==
  LET R_ == {i \in 1 .. Len(io) : io[i].ev = "read" /\ io[i].frame = frame}
  IN io[CHOOSE i \in R_ : \A j \in R_ : j <= i].bytes

(***************************************************************************)
(* C1 (as stated): every send_command(cmd) that returns has written        *)
(* exactly the three frames CONFIG_ENABLE, cmd, CONFIG_DISABLE and returns *)
(* the bytes read after the cmd frame.                                     *)
(***************************************************************************)
C1_ExactlyThreeFrames ==
  (call.op = "send_command" /\ result.status = "returned")
    => /\ WrittenFrames = Bracket(call.args[1])
       /\ result.value = LastReadOf(frame_wrapper(call.args[1]))

(***************************************************************************)
(* C1 (amended): during send_command(cmd) the frames go out in the order   *)
(* CONFIG_ENABLE, cmd, CONFIG_DISABLE, each one once and once more for     *)
(* every exception its read raised (send_frame writes the frame again when *)
(* it retries); the call never raises, it returns only after               *)
(* CONFIG_DISABLE was written and read, and it returns the bytes of the    *)
(* one completed read that followed the cmd frame.                         *)
(***************************************************************************)
C1_BracketWithRetries ==
  call.op = "send_command" =>
    LET cmd == call.args[1] IN
    /\ result.status # "raised"
    /\ IsPrefix(Squash(WrittenFrames), Bracket(cmd))
    /\ \A i \in 1 .. 3 :
         /\ Count("write", Bracket(cmd)[i]) <= 1 + Count("read_exc", Bracket(cmd)[i])
         /\ Count("read", Bracket(cmd)[i]) <= 1
    /\ result.status = "returned" =>
         /\ Squash(WrittenFrames) = Bracket(cmd)
         /\ \A i \in 1 .. 3 :
              /\ Count("write", Bracket(cmd)[i]) = 1 + Count("read_exc", Bracket(cmd)[i])
              /\ Count("read", Bracket(cmd)[i]) = 1
         /\ io[Len(io)] = R(Bracket(cmd)[3], io[Len(io)].bytes)
         /\ result.value = LastReadOf(Bracket(cmd)[2])
         /\ (retries = 0 => WrittenFrames = Bracket(cmd))

\* send_command returned an empty response after the read of the cmd frame raised once
C1_Witness ==
  /\ call.op = "send_command"
  /\ result.status = "returned"
  /\ Count("read_exc", frame_wrapper(call.args[1])) = 1
  /\ Count("write", frame_wrapper(call.args[1])) = 2
  /\ result.value = Empty

(***************************************************************************)
(* C2 (as stated): edit_detection_params and edit_gate_sensitivity raise   *)
(* and write nothing when an argument is outside its range (gates [0,8],   *)
(* sensitivities [0,100], timeout [TIMEOUT_MIN, TIMEOUT_MAX]); with every  *)
(* argument inside its range they raise nothing and send the bracket.      *)
(***************************************************************************)
InGate(g) == GATE_MIN <= g /\ g <= GATE_MAX
InSens(x) == SENS_MIN <= x /\ x <= SENS_MAX
InTimeout(x) == TIMEOUT_MIN <= x /\ x <= TIMEOUT_MAX

Rejected == result = Raised("Exception") /\ io = <<>> /\ prog = <<>>
Accepted(code) ==
  /\ result.status # "raised"
  /\ result.status = "returned" =>
       /\ Len(Squash(WrittenFrames)) = 3
       /\ Squash(WrittenFrames)[1] = frame_wrapper(CMD_CONFIG_ENABLE)
       /\ Squash(WrittenFrames)[2].body.code = code
       /\ Squash(WrittenFrames)[3] = frame_wrapper(CMD_CONFIG_DISABLE)

C2_PlainRanges ==
  /\ call.op = "edit_detection_params" =>
       IF InGate(call.args[1]) /\ InGate(call.args[2]) /\ InTimeout(call.args[3])
       THEN Accepted("CMD_PARAM_EDIT") ELSE Rejected
  /\ call.op = "edit_gate_sensitivity" =>
       IF InGate(call.args[1]) /\ InSens(call.args[2]) /\ InSens(call.args[3])
       THEN Accepted("CMD_GATE_SENS_EDIT") ELSE Rejected

(***************************************************************************)
(* C2 (amended): the same, where the range of static_sens is [0,0] when    *)
(* gate is 1 or 2 and [0,100] for every other gate.                        *)
(***************************************************************************)
InStaticSens(g, x) == IF g \in {1, 2} THEN x = 0 ELSE InSens(x)

C2_ValidationBeforeAnyFrame ==
  /\ call.op = "edit_detection_params" =>
       IF InGate(call.args[1]) /\ InGate(call.args[2]) /\ InTimeout(call.args[3])
       THEN Accepted("CMD_PARAM_EDIT") ELSE Rejected
  /\ call.op = "edit_gate_sensitivity" =>
       IF /\ InGate(call.args[1]) /\ InSens(call.args[2])
          /\ InStaticSens(call.args[1], call.args[3])
       THEN Accepted("CMD_GATE_SENS_EDIT") ELSE Rejected

\* a call at the upper boundaries went through, one just beyond them was rejected
C2_Witness ==
  \/ /\ call = [op |-> "edit_detection_params", args |-> <<GATE_MAX, GATE_MIN, TIMEOUT_MAX>>]
     /\ result.status = "returned"
     /\ Len(WrittenFrames) >= 3
  \/ /\ call = [op |-> "edit_gate_sensitivity", args |-> <<GATE_MAX, SENS_MAX, SENS_MAX + 1>>]
     /\ Rejected

(***************************************************************************)
(* C3: edit_gate_sensitivity with gate 1 or 2 accepts static_sens only     *)
(* when it is 0, any other value raises and nothing is written; for every  *)
(* other gate of [0,8] every static_sens of [0,100] is accepted.           *)
(***************************************************************************)
C3_Gate1And2StaticZero ==
  (call.op = "edit_gate_sensitivity" /\ InGate(call.args[1]) /\ InSens(call.args[2])) =>
    IF call.args[1] \in {1, 2}
    THEN IF call.args[3] = 0 THEN Accepted("CMD_GATE_SENS_EDIT") ELSE Rejected
    ELSE InSens(call.args[3]) => Accepted("CMD_GATE_SENS_EDIT")

\* gate 2 with static_sens 1 was rejected
C3_Witness ==
  /\ call = [op |-> "edit_gate_sensitivity", args |-> <<2, SENS_MAX, 1>>]
  /\ Rejected

(***************************************************************************)
(* C4: set_baud_rate with a selector that is not in the baud lookup table  *)
(* raises, writes nothing, and leaves the baud rate, the engineering-mode  *)
(* flag and the serial handle as they were.                                *)
(***************************************************************************)
C4_UnsupportedBaudRejected ==
  [][ (call' # call /\ call'.op = "set_baud_rate"
         /\ call'.args[1] \notin DOMAIN BAUD_LOOKUP)
      => /\ result'.status = "raised"
         /\ io' = <<>>
         /\ prog' = <<>>
         /\ UNCHANGED <<baudrate, eng_mode, ser>> ]_vars

\* set_baud_rate(9, ...) has raised
C4_Witness ==
  /\ call.op = "set_baud_rate"
  /\ call.args[1] = 9
  /\ result.status = "raised"
  /\ io = <<>>

(***************************************************************************)
(* C5: get_data() called before start() was ever called returns the empty  *)
(* value, raises nothing, does not wait, and changes neither the slot nor  *)
(* any other state of the driver.                                          *)
(***************************************************************************)
C5_GetDataBeforeStart ==
  /\ []((call.op = "get_data" /\ worker_thread = <<>>)
          => /\ result.status # "raised"
             /\ lock = <<>>
             /\ last_detection = <<>>
             /\ result.status = "returned" => result.value = <<>>)
  /\ [][ (At("get_data") /\ worker_thread = <<>> /\ prog' = <<>>)
          => /\ result' = Returned(<<>>)
             /\ UNCHANGED <<drivervars, threadvars>> ]_vars

\* get_data() has returned the empty value on a driver that was never started
C5_Witness ==
  /\ call.op = "get_data"
  /\ result = Returned(<<>>)
  /\ worker_thread = <<>>

(***************************************************************************)
(* C6: a stop() that follows a stop() with no start() in between (the stop *)
(* signal is still set) returns at once, raises nothing and changes no     *)
(* state: stop signal, worker handle, slot, threads.                       *)
(***************************************************************************)
C6_SecondStopIsNoOp ==
  [][ (call' # call /\ call'.op = "stop" /\ stop_event)
      => /\ result' = Returned(<<>>)
         /\ prog' = <<>>
         /\ UNCHANGED <<drivervars, threadvars>> ]_vars

\* after start() and stop(), a second stop() has returned through the else branch
C6_Witness ==
  /\ call = [op |-> "stop", args |-> <<"not running">>]
  /\ result = Returned(<<>>)
  /\ worker_thread # <<>>
  /\ wpc[worker_thread[1]] = "exited"
  /\ stop_event

(***************************************************************************)
(* C7 (as stated): stop() called while no acquisition thread is running,   *)
(* a freshly constructed driver included, raises no error.                 *)
(***************************************************************************)
C7_StopWhenStoppedNeverRaises ==
  (call.op = "stop" /\ \A t \in Threads : ~Alive(t)) => result.status # "raised"

(***************************************************************************)
(* C8 (as stated): when start() has returned, the thread it spawned has    *)
(* not left the loop through the stop-signal check.                        *)
(***************************************************************************)
C8_StartReturnsWithLoopRunning ==
  (call.op = "start" /\ result.status = "returned")
    => /\ worker_thread # <<>>
       /\ wpc[worker_thread[1]] # "exited"

(***************************************************************************)
(* C9 (as stated): an acquisition thread ends only through the stop-signal *)
(* check, after a stop(); no outcome of a transport read ends it.          *)
(***************************************************************************)
C9_OnlyStopEndsAcquisition ==
  \A t \in Threads :
    wpc[t] \in {"exited", "crashed"} => (wpc[t] = "exited" /\ ever_stopped)

(***************************************************************************)
(* C10: on a wire that delivers one byte per read, the header search stops *)
(* only when the last 4 bytes delivered are the header, and once they are  *)
(* it stops without another read: it stops right after the first full     *)
(* occurrence of the header, whatever noise came before.                   *)
(***************************************************************************)
C10_HeaderSearchStopsAtFirstOccurrence ==
  /\ [](\A t \in Threads :
          (wpc[t] = "search" /\ heard[t].clean /\ heard[t].last = REF_READ_HEADER)
            => Queue_byte_str(buffer[t]) = REF_READ_HEADER)
  /\ [][ \A t \in Threads :
          (wpc[t] = "search" /\ heard[t].clean) =>
            /\ wpc'[t] = "frame" => heard[t].last = REF_READ_HEADER
            /\ heard[t].last = REF_READ_HEADER =>
                 \/ wpc'[t] = "frame"
                 \/ /\ wpc'[t] = "search"
                    /\ heard'[t] = heard[t]
                    /\ buffer'[t] = buffer[t] ]_vars

\* more than 4 bytes were delivered, one per read, the last 4 are the header, and
\* the search is about to stop
C10_Witness ==
  \E t \in Threads :
    /\ wpc[t] = "search"
    /\ heard[t].clean
    /\ heard[t].more
    /\ heard[t].last = REF_READ_HEADER
    /\ Queue_byte_str(buffer[t]) = REF_READ_HEADER

(***************************************************************************)
(* C11: the checksum is advisory.                                          *)
(***************************************************************************)
\* a whole telemetry frame (standard length at least) whose footer is wrong
BadFooter(f) == ~f.crc /\ f.len >= REF_NORMAL_PACKET_LEN

\* C11: a whole telemetry frame whose trailing bytes differ from the footer
\* constant is returned by get_data_frame unchanged (no error, the thread goes on
\* to decode it), and the acquisition loop decodes and publishes it to the slot
\* exactly as it would the same frame with a correct footer.
C11_ChecksumMismatchIsAdvisory ==
  [][\A t \in Threads :
       BadFooter(ret[t]) =>
         /\ (wpc[t] = "check" /\ wpc'[t] # "check") =>
              (wpc'[t] = "decode" /\ ret'[t] = ret[t])
         /\ (wpc[t] = "decode" /\ wpc'[t] # "decode") =>
              /\ wpc'[t] = "poll"
              /\ last_detection' = <<Reading([ret[t] EXCEPT !.crc = TRUE], eng_mode)>>]_vars

\* get_data_frame has returned a frame with a wrong footer, and the loop is
\* about to decode it
C11_Witness ==
  \E t \in Threads : wpc[t] = "decode" /\ BadFooter(ret[t]) /\ lock = <<t>>

(***************************************************************************)
(* C12, C13: the gate-energy arrays of the reading in the slot.            *)
(***************************************************************************)
HasArrays(reading) == reading.move_energies # <<>> /\ reading.static_energies # <<>>
NoArrays(reading) == reading.move_energies = <<>> /\ reading.static_energies = <<>>

\* C12: in every reachable state, the reading held in the slot has both
\* gate-energy arrays if and only if self.eng_mode is true now, and has neither
\* otherwise.
C12_ArraysIffEngineeringMode ==
  last_detection # <<>> =>
    /\ HasArrays(last_detection[1]) <=> eng_mode
    /\ NoArrays(last_detection[1]) <=> ~eng_mode

\* C13: whenever the reading get_radar_data produced carries gate-energy arrays,
\* the moving and the static array have exactly 9 elements each.
C13_ArraysHaveNineElements ==
  (last_detection # <<>> /\ ~NoArrays(last_detection[1])) =>
    /\ last_detection[1].move_energies = <<9>>
    /\ last_detection[1].static_energies = <<9>>

(***************************************************************************)
(* C14: the payload of edit_gate_sensitivity.                              *)
(***************************************************************************)
\* 256^i
RECURSIVE Pow256(_)
Pow256(i) == IF i = 0 THEN 1 ELSE 256 * Pow256(i - 1)

\* a 4-byte field read as a little-endian integer
DecodeLE(b) == b[1] + 256 * b[2] + 65536 * b[3] + 16777216 * b[4]

IsLittleEndianOf(b, n) ==
  /\ Len(b) = 4
  /\ \A i \in 0 .. 3 : b[i + 1] = (n \div Pow256(i)) % 256

\* C14: every frame edit_gate_sensitivity(g, s, s2) writes for its command carries
\* the command code, then (gate tag, 4 bytes), (moving tag, 4 bytes), (static tag,
\* 4 bytes) in that order; each field is the little-endian encoding of its
\* argument (byte i = (n div 256^i) mod 256, 0x01020304 -> 04 03 02 01), and the
\* three fields decode as little-endian integers to exactly (g, s, s2).
C14_GateSensitivityPayload ==
  /\ int_to_4b(16909060) = <<4, 3, 2, 1>>
  /\ \A i \in 1 .. Len(io) :
       (io[i].ev = "write" /\ io[i].frame.body.code = "CMD_GATE_SENS_EDIT") =>
         LET p == io[i].frame.body.params IN
         /\ call.op = "edit_gate_sensitivity"
         /\ <<p[1].tag, p[2].tag, p[3].tag>> =
              <<"PARAM_GATE_SELECT", "PARAM_MOVING_GATE_WORD", "PARAM_STATIC_GATE_WORD">>
         /\ Len(p) = 3
         /\ \A k \in 1 .. 3 : IsLittleEndianOf(p[k].val, call.args[k])
         /\ <<DecodeLE(p[1].val), DecodeLE(p[2].val), DecodeLE(p[3].val)>> = call.args

\* an accepted edit_gate_sensitivity(8, 100, 100) has written its command frame
C14_Witness ==
  /\ call = [op |-> "edit_gate_sensitivity", args |-> <<GATE_MAX, SENS_MAX, SENS_MAX>>]
  /\ \E i \in 1 .. Len(io) :
       io[i].ev = "write" /\ io[i].frame.body.code = "CMD_GATE_SENS_EDIT"

(***************************************************************************)
(* C15: get_data and the acquisition loop.                                 *)
(***************************************************************************)
\* thread t is inside get_radar_data, acquiring a frame under the lock
Acquiring(t) == lock = <<t>> /\ wpc[t] \in {"search", "frame", "check", "decode"}

\* C15: get_data() never waits on frame acquisition: while nothing has been
\* published yet, a get_data() call in progress is not held back by an
\* acquisition thread that is still acquiring its frame (it can take the lock
\* and return the empty value).
C15_GetDataNeverWaitsOnAcquisition ==
  (At("get_data") /\ last_detection = <<>>) => ~ \E t \in Threads : Acquiring(t)

(***************************************************************************)
(* C16, C17: zero-byte reads and failed reads during the header search.    *)
(***************************************************************************)
\* C16: the header search returns as soon as the last 4 bytes actually received
\* from the transport are the header, whatever zero-byte reads (timeouts, failed
\* reads) happened between them: in a search whose last 4 received bytes are the
\* header, the buffer reads as the header, so the loop ends there.
C16_PlaceholdersDoNotHideHeader ==
  \A t \in Threads :
    (wpc[t] = "search" /\ heard[t].last = REF_READ_HEADER)
      => Queue_byte_str(buffer[t]) = REF_READ_HEADER

\* C17: self.read_fail_count counts the failed reads since the last successful
\* frame read: a step changes it only by adding exactly 1 (one failed read of the
\* header search) or by resetting it to 0 (a non-empty frame was read).
C17_CounterCountsFailedReads ==
  [][read_fail_count' # read_fail_count =>
       \/ read_fail_count' = read_fail_count + 1
       \/ read_fail_count' = 0]_vars

(***************************************************************************)
(* C18: send_frame absorbs transport exceptions.                           *)
(***************************************************************************)
\* the send_frame calls of the current API call that have not returned yet
SendFramesLeft == Cardinality({i \in 1 .. Len(prog) : prog[i].k = "read"})

InSendFrame == At("write") \/ At("read")

\* C18: send_frame never propagates a transport exception: a step taken inside
\* send_frame leaves the call in progress; when the write or the read raises, the
\* next thing send_frame does is write the same frame again; send_frame returns
\* only by a read that completes on the open transport, with that read's bytes
\* (empty included) as its value; on a closed transport (one that fails forever)
\* it never returns; and on an open transport, where the exceptions come to an
\* end, it eventually returns.
C18_SendFrameAbsorbsExceptions ==
  /\ [][InSendFrame =>
          /\ result' = InProgress
          /\ (Len(io') > Len(io) /\ io'[Len(io')].ev \in {"write_exc", "read_exc"}) =>
               /\ Head(prog') = [k |-> "write", frame |-> Head(prog).frame]
               /\ SendFramesLeft' = SendFramesLeft
          /\ SendFramesLeft' # SendFramesLeft =>
               /\ SendFramesLeft' = SendFramesLeft - 1
               /\ At("read")
               /\ ser.open
               /\ \E b \in {Ack(Head(prog).frame), Empty} :
                    /\ io' = Append(io, R(Head(prog).frame, b))
                    /\ Head(prog).keep => ret_bytes' = b]_vars
  /\ \A n \in 1 .. 3 :
       (InSendFrame /\ SendFramesLeft = n /\ ser.open) ~> (SendFramesLeft < n)

\* a read of send_frame raised, the frame was written again, and the retried
\* read completed with no bytes
C18_Witness ==
  \E i \in 1 .. Len(io) - 2 :
    /\ io[i].ev = "read_exc"
    /\ io[i + 1] = W(io[i].frame)
    /\ io[i + 2] = R(io[i].frame, Empty)

(***************************************************************************)
(* C19, C20: what stop() leaves behind.                                    *)
(***************************************************************************)
\* a stop() that signalled cancellation has returned
StopReturned ==
  /\ call = [op |-> "stop", args |-> <<"running">>]
  /\ prog = <<>>
  /\ result.status = "returned"

\* C19: when a stop() that signalled cancellation returns, every acquisition
\* thread spawned so far has exited (so none can write the slot before the next
\* start()), also when start() was called more than once without a stop().
C19_StopLeavesNoThreadRunning ==
  StopReturned => \A t \in Threads : ~Alive(t)

\* C20: cancellation is observed only between frames: the stop signal never
\* takes a thread out of the frame acquisition it is in (a thread exits only at
\* poll_radar's check); under one stop signal a thread publishes at most one more
\* reading; at its next check it exits instead of starting another header
\* search; and, the transport eventually completing a frame read, the join of
\* stop() eventually returns.
C20_CancellationBetweenFrames ==
  /\ [](\A t \in Threads : pubs[t] <= 1)
  /\ [][\A t \in Threads :
          /\ (wpc'[t] = "exited" /\ wpc[t] # "exited") => (wpc[t] = "poll" /\ stop_event)
          /\ (stop_event /\ wpc[t] = "poll" /\ wpc'[t] # "poll") => wpc'[t] = "exited"]_vars
  /\ (At("join") /\ worker_thread # <<>>) ~> StopReturned

\* the stop signal found the thread inside an acquisition: it published one more
\* reading, exited at its next check, and stop() returned
C20_Witness ==
  /\ StopReturned
  /\ \E t \in Threads : worker_thread = <<t>> /\ pubs[t] = 1 /\ wpc[t] = "exited"

=============================================================================
